---- MODULE Spec2Model ----
(***************************************************************************)
(* Offline mutation queue of appflow: the useOffline hook of               *)
(* src/src/hooks/use-offline.ts.                                           *)
(*                                                                         *)
(* The hook keeps three pieces of React state (isOnline, queue,            *)
(* isSyncing).  Callbacks made by a render read the state values that      *)
(* render saw: syncQueue is a useCallback over [queue, isSyncing], so the  *)
(* guard and the loop of one syncQueue function work on the queue and the  *)
(* isSyncing flag captured when that function was made.  State updates     *)
(* (setQueue, setIsSyncing) take effect at once on the hook's state, and   *)
(* reach the callbacks and the durable store only when React commits the   *)
(* next render (Render below), which also runs the persist effect.         *)
(*                                                                         *)
(* Specifications of the hook share its actions and differ in their        *)
(* bounds: Spec (few mutations, overlapping passes), SpecABC (three        *)
(* mutations, one pass), SpecLong (one mutation, enough passes to exhaust  *)
(* retries) and SpecExec (with executeWithFallback).                       *)
(*                                                                         *)
(* The service worker of src/public/sw.js is the second part: its          *)
(* lifecycle (install, activate), the caches it names by version and role, *)
(* the strategies of its fetch handler and its sync handler.  A strategy   *)
(* runs in steps: the fetch event up to the await of fetch(), then the     *)
(* end of that fetch; a cache.put is issued without being awaited and      *)
(* settles in a step of its own.  SpecSW is the worker alone, SpecSync the *)
(* page's queue together with the worker's lifecycle and sync handler.     *)
(* Smaller specifications take the part of the worker one property is      *)
(* about: SpecCacheFirst, SpecRevalidate, SpecLife, SpecBypass (requests   *)
(* the handler leaves alone), SpecRoute (requests that pass several tests  *)
(* of the handler), SpecStore (everything that stores responses) and       *)
(* SpecMessages (the message and push handlers).  SpecDamage is the hook   *)
(* with a durable record that something else made unparseable.  SpecPass   *)
(* is the hook with two mutations and one pass, SpecLive the same under    *)
(* the assumption that every awaited write settles, SpecMethod the hook    *)
(* with executeWithFallback called with every method, SpecClick the        *)
(* worker with its window clients and notification clicks, and             *)
(* SpecRecords the worker with its sync handler and the pending records.   *)
(***************************************************************************)
EXTENDS Integers, Sequences, FiniteSets, TLC

\* ---------------------------------------------------------------- bounds
MaxIds == 2          \* Spec: mutations ever enqueued in one behaviour
MaxReplays == 2      \* Spec: replay passes ever started in one behaviour
ABCIds == 3          \* SpecABC: mutations ever enqueued
ABCReplays == 1      \* SpecABC: replay passes ever started
LongIds == 1         \* SpecLong: mutations ever enqueued
LongReplays == 6     \* SpecLong: replay passes ever started
ExecIds == 2         \* SpecExec: mutations ever enqueued
ExecReplays == 1     \* SpecExec: replay passes ever started
PassIds == 2         \* SpecPass: mutations ever enqueued
PassReplays == 1     \* SpecPass: replay passes ever started
MethodIds == 1       \* SpecMethod: mutations ever enqueued
MethodReplays == 1   \* SpecMethod: replay passes ever started
DamageIds == 1       \* SpecDamage: mutations ever enqueued
DamageReplays == 1   \* SpecDamage: replay passes ever started
MaxExecs == 1        \* executeWithFallback calls awaiting their fetch at once
SWIds == 1           \* SpecSW: mutations ever enqueued (the queue is idle)
SWReplays == 1       \* SpecSW: replay passes ever started
SyncIds == 1         \* SpecSync: mutations ever enqueued
SyncReplays == 1     \* SpecSync: replay passes ever started
MaxHandlers == 2     \* fetch events being handled at once by the worker
MaxFetchEvents == 3  \* SpecSW: fetch events ever handled in one behaviour
StoreFetchEvents == 2 \* SpecStore: fetch events ever handled
MaxWindows == 2      \* window clients open at once
MaxRecords == 2      \* records in the '/pending-records' entry
MaxBody == 2         \* versions of a resource the network can serve
MaxPasses == 2       \* replay passes that can be awaiting a write at once
MaxEvents == 2       \* abandonment events remembered by the observer
MaxFails == 5        \* failed writes counted per mutation by the observer

\* ------------------------------------------------------ program constants
MAX_RETRIES == 3

\* the durable store under QUEUE_STORAGE_KEY: no record (getItem gives
\* null), or the list that setItem wrote
NoRecord == [present |-> FALSE, valid |-> TRUE, list |-> <<>>]
Stored(list) == [present |-> TRUE, valid |-> TRUE, list |-> list]

\* a record whose text JSON.parse rejects
Unparseable == [present |-> TRUE, valid |-> FALSE, list |-> <<>>]

VARIABLES
  queue,        \* useState queue: the latest value, pending updates applied
  isSyncing,    \* useState isSyncing
  isOnline,     \* useState isOnline
  storage,      \* localStorage[QUEUE_STORAGE_KEY]: NoRecord or Stored(list)
  closure,      \* [queue, isSyncing, isOnline] seen by the callbacks the
                \* caller holds
  queueDirty,   \* setQueue was called since the last commit
  passes,       \* the syncQueue invocations that are awaiting a fetch
  nextId,       \* creation order of the ids handed out by queueAction
  replays,      \* replay passes started so far
  limits,       \* the bounds of the specification in force
  confirmed,    \* observer: ids whose replay write got an ok response
  events,       \* observer: details of the 'offline-sync-failed' events
  fails,        \* observer: failed replay writes per id
  exec,         \* the executeWithFallback calls that are awaiting their fetch
  outcome,      \* observer: what the last executeWithFallback call returned
  made,         \* per id: the type field of the action (it never changes,
                \* so it is kept apart from the queue's records) and, for
                \* the observer, the options.method the action came from
  phase,        \* the service worker's lifecycle state
  cacheNames,   \* caches.keys(): the names of the generations that exist
  entries,      \* the responses held: a Put record per cache and key
  toDelete,     \* activation: the deletions of old generations not yet done
  handlers,     \* the fetch events being handled (strategy invocations)
  puts,         \* cache.put calls issued and not yet settled
  fetchEvents,  \* fetch events handled so far
  pendingRecords, \* the records under '/pending-records' in the dynamic cache
  lastOk,       \* observer: per key, the last ok network response a
                \* network-first handler has answered with
  answer,       \* observer: the last answer given to a fetch event
  clearing,     \* a CLEAR_CACHE message being handled: deletions not done
  notification, \* the notification the push handler showed last
  windows,      \* clients.matchAll: the urls of the open window clients
  clicked       \* observer: what the last notification click focused and
                \* opened

\* the ids queueAction can hand out under the specification in force
Ids == 1..limits.ids

vars == <<queue, isSyncing, isOnline, storage, closure, queueDirty, passes,
          nextId, replays, limits,
          confirmed, events, fails, exec, outcome, made,
          phase, cacheNames, entries, toDelete, handlers, puts, fetchEvents,
          pendingRecords, lastOk, answer, clearing, notification,
          windows, clicked>>

\* the state of the hook (src/hooks/use-offline.ts) and of the service
\* worker (public/sw.js): neither touches the other's
hookVars == <<queue, isSyncing, isOnline, storage, closure, queueDirty,
              passes, nextId, replays, confirmed, events, fails, exec,
              outcome, made>>
swVars == <<phase, cacheNames, entries, toDelete, handlers, puts,
            fetchEvents, pendingRecords, lastOk, answer, clearing,
            notification, windows, clicked>>

\* what the message and push handlers work on besides the caches
msgVars == <<clearing, notification, windows, clicked>>

hist == <<confirmed, events, fails>>

\* what executeWithFallback works on besides the queue
execVars == <<exec, outcome, made>>

\* ------------------------------------------------------------- helpers
IdsOf(s) == {s[i].id : i \in 1..Len(s)}

RECURSIVE Filter(_, _)
\* prev.filter((a) => a.id !== id)
Filter(s, id) ==
  IF s = <<>> THEN <<>>
  ELSE IF Head(s).id # id THEN <<Head(s)>> \o Filter(Tail(s), id)
       ELSE Filter(Tail(s), id)

\* the first render of a mount: useState(true), useState([]), useState(false)
MountClosure == [queue |-> <<>>, isSyncing |-> FALSE, isOnline |-> TRUE]

\* a syncQueue invocation: the queue it iterates (snap), the iteration it
\* is in (idx), its failedActions (failed); log is the observer's list of
\* the ids whose write it has issued, pending the writes not yet resolved,
\* since the id the next queueAction would hand out when the pass started
IdlePass == [active |-> FALSE, snap |-> <<>>, idx |-> 0, failed |-> <<>>,
             log |-> <<>>, pending |-> 0, since |-> 0]

\* an executeWithFallback call awaiting its direct fetch, whether it was
\* given fallbackData, and its options.method ("" when absent)
IdleExec == [active |-> FALSE, fallback |-> FALSE, method |-> ""]

\* the value a call returned: kind "success" ({success: true, data}),
\* "queued" ({success: true, queued: true, data: {id, offline: true}}) or
\* "error" ({success: false, error}); id is the queued action's id
NoOutcome == [kind |-> "none", id |-> 0]

\* how the direct fetch of executeWithFallback can end: a 2xx response with
\* a JSON body, a 2xx response whose body is not JSON (response.json()
\* throws), a response that is not ok, or fetch itself throwing
DirectResults == {"ok", "okNoJson", "httpError", "networkError"}

\* ------------------------------------------------------------ the code
\* line 87: if (isSyncing || queue.length === 0) return;  (TRUE = goes on)
SyncGuard(c) == ~(c.isSyncing \/ Len(c.queue) = 0)

\* mutant: the loop walks the queue from its tail
ActionAtReversed(snap, i) == snap[Len(snap) - i + 1]

\* line 92: for (const action of queue), the i-th iteration
ActionAt(snap, i) == snap[i]

\* mutant: the failed action is kept without counting the retry
OnFailureSameRetries(failed, action) ==
  IF action.retries < MAX_RETRIES THEN Append(failed, action) ELSE failed

\* lines 109-113: a failed action that can retry is kept, retries + 1
OnFailure(failed, action) ==
  IF action.retries < MAX_RETRIES
  THEN Append(failed, [action EXCEPT !.retries = action.retries + 1])
  ELSE failed

\* lines 114-119: the else branch, which dispatches 'offline-sync-failed'
Abandons(action) == ~(action.retries < MAX_RETRIES)

\* mutant: the pass ends without replacing the queue
QueueAfterPassKeepsPrev(prev, failed) == prev

\* line 125: setQueue(failedActions)
QueueAfterPass(prev, failed) == failed

\* lines 66-74: the type queueAction was given, and where the call came
\* from: the caller ("caller") or executeWithFallback with options.method
Made(type, by, method) == [type |-> type, by |-> by, method |-> method]

\* String.prototype.toUpperCase on the method names of the model
Upper(m) == IF m = "put" THEN "PUT" ELSE m

\* lines 169-172: options.method?.toUpperCase() || 'POST', then the type
TypeOf(method) ==
  LET m == IF method = "" THEN "POST" ELSE Upper(method)
  IN IF m = "POST" THEN "create" ELSE IF m = "PUT" THEN "update" ELSE "delete"

\* lines 95-96: the method of the replay write
ReplayMethod(type) ==
  IF type = "create" THEN "POST" ELSE IF type = "update" THEN "PUT" ELSE "DELETE"

\* lines 144-150: the method of fetch(endpoint, {...options}): GET when
\* options has none; fetch puts the standard names in upper case
RequestMethod(method) == IF method = "" THEN "GET" ELSE Upper(method)

\* lines 66-74: the action made by queueAction
NewAction(id) == [id |-> id, retries |-> 0]

\* mutant: the new action is put in front
AppendedAtHead(prev, action) == <<action>> \o prev

\* line 76: setQueue((prev) => [...prev, action])
Appended(prev, action) == Append(prev, action)

\* observers (saturating, they do not restrict the program)
Remember(evs, detail) ==
  [evs EXCEPT ![detail.id] =
     IF Len(evs[detail.id]) < MaxEvents THEN Append(evs[detail.id], detail)
     ELSE evs[detail.id]]
CountFail(f, id) == [f EXCEPT ![id] = IF f[id] < MaxFails THEN f[id] + 1 ELSE f[id]]

\* observer of a pass: the write for action a is issued / one write resolves
Issued(ps, a) == [ps EXCEPT !.log = Append(ps.log, a.id), !.pending = ps.pending + 1]
Resolved(ps) == [ps EXCEPT !.pending = ps.pending - 1]

FreeSlots == {p \in 1..MaxPasses : ~passes[p].active}

\* lines 86-99: one call of a syncQueue function made by a render that saw
\* c: the guard, setIsSyncing(true), and the loop up to its first await
SyncQueue(c) ==
  IF SyncGuard(c)
  THEN /\ FreeSlots # {}
       /\ replays < limits.replays
       /\ replays' = replays + 1
       /\ LET p == CHOOSE f \in FreeSlots : \A g \in FreeSlots : f <= g
          IN passes' = [passes EXCEPT ![p] =
                 Issued([active |-> TRUE, snap |-> c.queue, idx |-> 1,
                         failed |-> <<>>, log |-> <<>>, pending |-> 0,
                         since |-> nextId],
                        ActionAt(c.queue, 1))]
       /\ isSyncing' = TRUE
  ELSE UNCHANGED <<passes, isSyncing, replays>>

\* ------------------------------------------- the service worker's data
\* a cache name 'appflow-v<digits>-<role>': the digits of its version and
\* its role
CacheName(ver, role) == [ver |-> ver, role |-> role]

\* line 2: CACHE_VERSION = 'appflow-v1', the digits of the active version
CACHE_VERSION == <<1>>

\* lines 3-5
STATIC_CACHE == CacheName(CACHE_VERSION, "static")
DYNAMIC_CACHE == CacheName(CACHE_VERSION, "dynamic")
API_CACHE == CacheName(CACHE_VERSION, "api")

CurrentNames == {STATIC_CACHE, DYNAMIC_CACHE, API_CACHE}

\* generations that deployments other than the active one may have left in
\* the origin's cache storage: of version 0, and of version 10
OldNames == {CacheName(<<0>>, "static"), CacheName(<<0>>, "api"),
             CacheName(<<1, 0>>, "dynamic")}

AllNames == CurrentNames \cup OldNames

\* line 43: name.startsWith(CACHE_VERSION); the name's text starts with
\* 'appflow-v1' when its version digits start with the active ones
StartsWithVersion(name) ==
  /\ Len(name.ver) >= Len(CACHE_VERSION)
  /\ SubSeq(name.ver, 1, Len(CACHE_VERSION)) = CACHE_VERSION

\* a request: its method, the scheme of its url as 'http' plus a rest, the
\* segments of its pathname (a file extension is the last segment) and its
\* mode
Request(method, protocol, path, mode) ==
  [method |-> method, protocol |-> protocol, path |-> path, mode |-> mode]

NoRequest == Request("", <<>>, <<>>, "")

ApiRecords == Request("GET", <<"http", "s:">>, <<"api", "records">>, "cors")
AppJs == Request("GET", <<"http", "s:">>, <<"app", ".js">>, "no-cors")
FormPage == Request("GET", <<"http", "s:">>, <<"form">>, "navigate")
DataFeed == Request("GET", <<"http", "s:">>, <<"data">>, "cors")

\* the requests the pages make
Requests == {ApiRecords, AppJs, FormPage, DataFeed}

\* a write to the API, a write to a page, and scripts loaded by schemes
\* other than http(s)
PostRecord == Request("POST", <<"http", "s:">>, <<"api", "records">>, "cors")
PutForm == Request("PUT", <<"http", ":">>, <<"form">>, "same-origin")
ExtensionJs ==
  Request("GET", <<"chrome-extension:">>, <<"app", ".js">>, "no-cors")
DataUrl == Request("GET", <<"data:">>, <<"data">>, "cors")

\* requests the fetch handler is to leave alone
Bypassed == {PostRecord, PutForm, ExtensionJs, DataUrl}

\* requests that pass more than one test of the fetch handler: a navigation
\* to a script under the API prefix, and a navigation to an image
ApiScript ==
  Request("GET", <<"http", "s:">>, <<"api", "app", ".js">>, "navigate")
ImageNav == Request("GET", <<"http", "s:">>, <<"logo", ".png">>, "navigate")
Overlapping == {ApiScript, ImageNav}

\* lines 8-12: STATIC_ASSETS = ['/', '/manifest.json', '/offline']
RootPath == <<>>
ManifestPath == <<"manifest", ".json">>
OfflinePath == <<"offline">>
STATIC_ASSETS == {RootPath, ManifestPath, OfflinePath}

\* the keys under which a cache can hold a response
Keys == {r.path : r \in Requests \cup Overlapping} \cup STATIC_ASSETS

\* lines 179-183
staticExtensions == {".js", ".css", ".woff", ".woff2", ".ttf", ".eot",
                     ".png", ".jpg", ".jpeg", ".gif", ".svg", ".ico",
                     ".webp", ".avif"}

\* lines 178-186: staticExtensions.some((ext) => pathname.endsWith(ext))
isStaticAsset(path) == path # <<>> /\ path[Len(path)] \in staticExtensions

\* what the fetch handler does with a request: the strategy and the cache
\* it passes, "none" when it returns without respondWith
Routed(strategy, cache) == [strategy |-> strategy, cache |-> cache]

\* mutant: the method is not looked at
IsGetAnyMethod(req) == TRUE

\* line 63: request.method !== 'GET', negated
IsGet(req) == req.method = "GET"

\* line 68: url.protocol.startsWith('http')
IsHttp(req) == req.protocol # <<>> /\ req.protocol[1] = "http"

\* mutant: the test for a static asset comes before the test for the API
RouteStaticFirst(req) ==
  IF ~IsGet(req) THEN Routed("none", STATIC_CACHE)
  ELSE IF ~IsHttp(req) THEN Routed("none", STATIC_CACHE)
  ELSE IF isStaticAsset(req.path) THEN Routed("cacheFirst", STATIC_CACHE)
  ELSE IF Len(req.path) >= 2 /\ req.path[1] = "api"
       THEN Routed("networkFirst", API_CACHE)
  ELSE IF req.mode = "navigate" THEN Routed("navigate", DYNAMIC_CACHE)
  ELSE Routed("staleWhileRevalidate", DYNAMIC_CACHE)

\* lines 58-98: the chain of tests of the fetch handler, in order
Route(req) ==
  IF ~IsGet(req) THEN Routed("none", STATIC_CACHE)
  ELSE IF ~IsHttp(req) THEN Routed("none", STATIC_CACHE)
  ELSE IF Len(req.path) >= 2 /\ req.path[1] = "api"
       THEN Routed("networkFirst", API_CACHE)
  ELSE IF isStaticAsset(req.path) THEN Routed("cacheFirst", STATIC_CACHE)
  ELSE IF req.mode = "navigate" THEN Routed("navigate", DYNAMIC_CACHE)
  ELSE Routed("staleWhileRevalidate", DYNAMIC_CACHE)

\* the requests the fetch handler gives to strategy st
RoutedTo(st) == {r \in Requests : Route(r).strategy = st}

\* how a fetch() of the worker can end: a response of body version b with
\* a success status, a response with an error status, or a thrown error
NetResponse(ok, body) == [kind |-> "response", ok |-> ok, body |-> body]
NetThrows == [kind |-> "throw", ok |-> FALSE, body |-> 0]
NetResults ==
  {NetResponse(TRUE, b) : b \in 1..MaxBody} \cup {NetResponse(FALSE, 0), NetThrows}

\* what a fetch event was answered with: the network's response ("network"),
\* a stored response ("cached"), a promise resolved with undefined or null
\* ("empty") or a rejected promise ("reject")
Answer(kind, ok, body, key) ==
  [kind |-> kind, ok |-> ok, body |-> body, key |-> key]
NoAnswer == Answer("none", FALSE, 0, <<>>)

\* a strategy invocation awaiting its fetch: the request, the strategy and
\* cache of its route, whether the event has been answered already, and for
\* the observer the value of lastOk for its key when the event arrived
IdleHandler == [active |-> FALSE, req |-> NoRequest, strategy |-> "none",
                cache |-> STATIC_CACHE, answered |-> FALSE, seen |-> 0]

\* a cache.put(request, response.clone()) that was issued
Put(cache, key, body) == [cache |-> cache, key |-> key, body |-> body]

AllPuts == {Put(n, k, b) : n \in CurrentNames, k \in Keys, b \in 1..MaxBody}

\* the '/pending-records' entry of the dynamic cache: absent, or a list
NoPending == [present |-> FALSE, list |-> <<>>]

\* the entries of store under key in cache
Held(store, cache, key) == {e \in store : e.cache = cache /\ e.key = key}

\* cache.match(key) on an opened cache: the body held, 0 for undefined
Match(store, cache, key) ==
  IF Held(store, cache, key) = {} THEN 0
  ELSE (CHOOSE e \in Held(store, cache, key) : TRUE).body

\* a settled cache.put: the entry under key is replaced
Written(store, cache, key, body) ==
  (store \ Held(store, cache, key)) \cup {Put(cache, key, body)}

\* caches.match(key): the entries any existing cache holds under key
MatchAnywhere(names, store, key) ==
  {e.body : e \in {x \in store : x.key = key /\ x.cache \in names}}

\* mutant: addAll stores the responses whatever their status
AddAllAnyStatus(store, cache, keys, res) ==
  IF res.kind = "response"
  THEN {e \in store : ~(e.cache = cache /\ e.key \in keys)}
       \cup {Put(cache, k, res.body) : k \in keys}
  ELSE store

\* lines 22 and 301: cache.addAll(keys), where res is how the fetches went
\* (all ok, or one not ok or thrown): every response is stored or none
AddAll(store, cache, keys, res) ==
  IF res.kind = "response" /\ res.ok
  THEN {e \in store : ~(e.cache = cache /\ e.key \in keys)}
       \cup {Put(cache, k, res.body) : k \in keys}
  ELSE store

\* the observer's record for key, 0 for none
LastOkFor(key) ==
  IF \E e \in lastOk : e.key = key
  THEN (CHOOSE e \in lastOk : e.key = key).body
  ELSE 0

\* no CLEAR_CACHE is being handled; otherwise left are the names whose
\* caches.delete has not settled
NoClear == [active |-> FALSE, left |-> {}]

\* what showNotification was called with: title and body, where
\* "undefined" stands for the value undefined
Shown(title, body) == [shown |-> TRUE, title |-> title, body |-> body]
NoNotification == [shown |-> FALSE, title |-> "", body |-> ""]

\* what a click did: the windows (positions in windows) that were focused
\* and the urls openWindow was called with
Clicked(focused, opened) == [focused |-> focused, opened |-> opened]
NoClick == Clicked({}, {})

\* the worker's script has been parsed; the cache storage holds what other
\* deployments left (olds), and no activity has happened
SWStart(olds) ==
  /\ phase = "parsed"
  /\ cacheNames = olds
  /\ entries = {}
  /\ toDelete = {}
  /\ handlers = [h \in 1..MaxHandlers |-> IdleHandler]
  /\ puts = {}
  /\ fetchEvents = 0
  /\ pendingRecords = NoPending
  /\ lastOk = {}
  /\ answer = NoAnswer
  /\ clearing = NoClear
  /\ notification = NoNotification
  /\ windows = <<>>
  /\ clicked = NoClick

\* ------------------------------------------------------------- actions
Start ==
  /\ queue = <<>>
  /\ isSyncing = FALSE
  /\ isOnline \in BOOLEAN
  /\ storage = Stored(<<>>)
  /\ closure = MountClosure
  /\ queueDirty = FALSE
  /\ passes = [p \in 1..MaxPasses |-> IdlePass]
  /\ nextId = 1
  /\ replays = 0
  /\ confirmed = {}
  /\ events = [i \in Ids |-> <<>>]
  /\ fails = [i \in Ids |-> 0]
  /\ exec = [e \in 1..MaxExecs |-> IdleExec]
  /\ outcome = NoOutcome
  /\ made = [i \in Ids |-> Made("", "none", "")]

Init == limits = [ids |-> MaxIds, replays |-> MaxReplays] /\ Start /\ SWStart({})

InitABC == limits = [ids |-> ABCIds, replays |-> ABCReplays] /\ Start /\ SWStart({})

InitLong == limits = [ids |-> LongIds, replays |-> LongReplays] /\ Start /\ SWStart({})

InitExec == limits = [ids |-> ExecIds, replays |-> ExecReplays] /\ Start /\ SWStart({})

\* lines 61-78: queueAction called by the application (with type 'create':
\* the type only decides the method of the replay write)
QueueAction ==
  /\ nextId <= limits.ids
  /\ queue' = Appended(queue, NewAction(nextId))
  /\ queueDirty' = TRUE
  /\ nextId' = nextId + 1
  /\ made' = [made EXCEPT ![nextId] = Made("create", "caller", "")]
  /\ UNCHANGED <<isSyncing, isOnline, storage, closure, passes, replays,
                 limits, hist, exec, outcome, swVars>>

\* the caller calls the syncQueue function it holds
Replay ==
  /\ SyncGuard(closure)
  /\ SyncQueue(closure)
  /\ UNCHANGED <<queue, isOnline, storage, closure, queueDirty, nextId,
                 limits, hist, execVars, swVars>>

\* lines 42-45: handleOnline, made by the first render (effect deps [])
HandleOnline ==
  /\ isOnline' = TRUE
  /\ SyncQueue(MountClosure)
  /\ UNCHANGED <<queue, storage, closure, queueDirty, nextId, limits, hist,
                 execVars, swVars>>

\* line 46: handleOffline
HandleOffline ==
  /\ isOnline
  /\ isOnline' = FALSE
  /\ UNCHANGED <<queue, isSyncing, storage, closure, queueDirty, passes,
                 nextId, replays, limits, hist, execVars, swVars>>

\* mutant: the pass ends without resetting the flag
SyncingWhenDoneStuck == TRUE

\* line 126: setIsSyncing(false)
SyncingWhenDone == FALSE

\* lines 93-126: the fetch awaited by pass p resolves (ok) or fails; the
\* loop body finishes and either issues the next fetch or ends the pass
FetchResolves(p, ok) ==
  /\ passes[p].active
  /\ LET ps == passes[p]
         a == ActionAt(ps.snap, ps.idx)
         failed2 == IF ok THEN ps.failed ELSE OnFailure(ps.failed, a)
         queue2 == IF ok THEN Filter(queue, a.id) ELSE queue
         last == ps.idx >= Len(ps.snap)
     IN /\ confirmed' = IF ok THEN confirmed \cup {a.id} ELSE confirmed
        /\ fails' = IF ok THEN fails ELSE CountFail(fails, a.id)
        /\ events' = IF ~ok /\ Abandons(a) THEN Remember(events, a) ELSE events
        /\ IF last
           THEN /\ queue' = QueueAfterPass(queue2, failed2)
                /\ queueDirty' = TRUE
                /\ isSyncing' = SyncingWhenDone
                /\ passes' = [passes EXCEPT ![p] = IdlePass]
           ELSE /\ queue' = queue2
                /\ queueDirty' = (queueDirty \/ ok)
                /\ isSyncing' = isSyncing
                /\ passes' = [passes EXCEPT ![p] =
                       Issued([Resolved(ps) EXCEPT !.idx = ps.idx + 1,
                                                   !.failed = failed2],
                              ActionAt(ps.snap, ps.idx + 1))]
  /\ UNCHANGED <<isOnline, storage, closure, nextId, replays, limits,
                 execVars, swVars>>

\* lines 130-133: clearQueue
ClearQueue ==
  /\ queue' = <<>>
  /\ queueDirty' = TRUE
  /\ storage' = NoRecord
  /\ UNCHANGED <<isSyncing, isOnline, closure, passes, nextId, replays,
                 limits, hist, execVars, swVars>>

\* what the callbacks of a render of the current state see
Rendered == [queue |-> queue, isSyncing |-> isSyncing, isOnline |-> isOnline]

\* mutant: the persist effect does not write
PersistEffectSkipped(changed, list, rec) == rec

\* lines 36-38: the persist effect, deps [queue]: setItem of the committed
\* queue when the queue changed, else the record stays
PersistEffect(changed, list, rec) == IF changed THEN Stored(list) ELSE rec

\* React commits the pending state: the callbacks are made again over the
\* new values, and the persist effect (lines 36-38) runs if queue changed
Render ==
  /\ queueDirty \/ closure # Rendered
  /\ closure' = Rendered
  /\ storage' = PersistEffect(queueDirty, queue, storage)
  /\ queueDirty' = FALSE
  /\ UNCHANGED <<queue, isSyncing, isOnline, passes, nextId, replays,
                 limits, hist, execVars, swVars>>

\* lines 24-27: if (stored) and JSON.parse(stored) did not throw, so that
\* setQueue is called with the list
Parsed(rec) == rec.present /\ rec.valid

\* the page is closed and opened again: the first render and its mount
\* effects, in order (lines 23-33 read the store, 36-38 write the first
\* render's empty queue, 49 reads navigator.onLine)
Restart(online) ==
  /\ queue' = IF Parsed(storage) THEN storage.list ELSE <<>>
  /\ queueDirty' = Parsed(storage)
  /\ storage' = Stored(<<>>)
  /\ isSyncing' = FALSE
  /\ isOnline' = online
  /\ closure' = MountClosure
  /\ passes' = [p \in 1..MaxPasses |-> IdlePass]
  /\ exec' = [e \in 1..MaxExecs |-> IdleExec]
  /\ UNCHANGED <<nextId, replays, limits, hist, outcome, made, swVars>>

\* lines 167-185: the code after the online branch, reached when offline or
\* when the try block threw
Fallthrough(fallback, method) ==
  IF fallback
  THEN /\ nextId <= limits.ids
       /\ queue' = Appended(queue, NewAction(nextId))
       /\ queueDirty' = TRUE
       /\ nextId' = nextId + 1
       /\ made' = [made EXCEPT ![nextId] =
                     Made(TypeOf(method), "fallback", method)]
       /\ outcome' = [kind |-> "queued", id |-> nextId]
  ELSE /\ outcome' = [kind |-> "error", id |-> 0]
       /\ UNCHANGED <<queue, queueDirty, nextId, made>>

FreeExecs == {e \in 1..MaxExecs : ~exec[e].active}

\* lines 136-150 and 167-185: executeWithFallback is called; the function
\* the caller holds saw closure.isOnline
ExecuteWithFallback(fallback, method) ==
  /\ IF closure.isOnline
     THEN /\ FreeExecs # {}
          /\ LET e == CHOOSE f \in FreeExecs : \A g \in FreeExecs : f <= g
             IN exec' = [exec EXCEPT ![e] = [active |-> TRUE,
                                            fallback |-> fallback,
                                            method |-> method]]
          /\ UNCHANGED <<queue, queueDirty, nextId, outcome, made>>
     ELSE /\ Fallthrough(fallback, method)
          /\ UNCHANGED exec
  /\ UNCHANGED <<isSyncing, isOnline, storage, closure, passes, replays,
                 limits, hist, swVars>>

\* lines 152-185: the direct fetch of call e ends
DirectResolves(e, res) ==
  /\ exec[e].active
  /\ exec' = [exec EXCEPT ![e] = IdleExec]
  /\ CASE res = "ok" ->
            /\ outcome' = [kind |-> "success", id |-> 0]
            /\ UNCHANGED <<queue, queueDirty, nextId, made>>
       [] res = "httpError" ->
            /\ outcome' = [kind |-> "error", id |-> 0]
            /\ UNCHANGED <<queue, queueDirty, nextId, made>>
       [] OTHER -> Fallthrough(exec[e].fallback, exec[e].method)
  /\ UNCHANGED <<isSyncing, isOnline, storage, closure, passes, replays,
                 limits, hist, swVars>>

Next ==
  \/ QueueAction
  \/ Replay
  \/ HandleOnline
  \/ HandleOffline
  \/ \E p \in 1..MaxPasses, ok \in BOOLEAN : FetchResolves(p, ok)
  \/ ClearQueue
  \/ Render
  \/ \E online \in BOOLEAN : Restart(online)

Spec == Init /\ [][Next]_vars

SpecABC == InitABC /\ [][Next]_vars

SpecLong == InitLong /\ [][Next]_vars

\* two mutations and one pass: what an enqueue and the end of a pass leave
InitPass == limits = [ids |-> PassIds, replays |-> PassReplays] /\ Start /\ SWStart({})

SpecPass == InitPass /\ [][Next]_vars

\* line 94: every fetch a pass awaits settles, with a response or an error
WritesSettle ==
  \A p \in 1..MaxPasses : WF_vars(\E ok \in BOOLEAN : FetchResolves(p, ok))

SpecLive == InitPass /\ [][Next]_vars /\ WritesSettle

NextExec ==
  \/ Next
  \/ \E fallback \in BOOLEAN : ExecuteWithFallback(fallback, "POST")
  \/ \E e \in 1..MaxExecs, res \in DirectResults : DirectResolves(e, res)

SpecExec == InitExec /\ [][NextExec]_vars

\* the values of options.method: absent, the three the queue has a type
\* for (one of them in lower case), and another one
Methods == {"", "POST", "put", "DELETE", "PATCH"}

\* the hook with calls of executeWithFallback of every method
NextMethod ==
  \/ Next
  \/ \E fallback \in BOOLEAN, method \in Methods :
       ExecuteWithFallback(fallback, method)
  \/ \E e \in 1..MaxExecs, res \in DirectResults : DirectResolves(e, res)

InitMethod ==
  limits = [ids |-> MethodIds, replays |-> MethodReplays] /\ Start /\ SWStart({})

SpecMethod == InitMethod /\ [][NextMethod]_vars

\* something else than the hook leaves text under the key that is not JSON
\* (another script of the origin, a write cut short)
Damage ==
  /\ storage' = Unparseable
  /\ UNCHANGED <<queue, isSyncing, isOnline, closure, queueDirty, passes,
                 nextId, replays, limits, hist, execVars, swVars>>

InitDamage ==
  limits = [ids |-> DamageIds, replays |-> DamageReplays] /\ Start /\ SWStart({})

NextDamage ==
  \/ Next
  \/ Damage

SpecDamage == InitDamage /\ [][NextDamage]_vars

\* ----------------------------------------- the service worker's actions
\* the body version the network serves for the precached assets at install
InstalledBody == 1

\* lines 15-32: the install handler; cache.addAll stores all of
\* STATIC_ASSETS or nothing, skipWaiting follows only when it succeeded,
\* and the catch lets the installation finish either way
Install(ok) ==
  /\ phase = "parsed"
  /\ cacheNames' = cacheNames \cup {STATIC_CACHE}
  /\ entries' = AddAll(entries, STATIC_CACHE, STATIC_ASSETS,
                       IF ok THEN NetResponse(TRUE, InstalledBody)
                       ELSE NetResponse(FALSE, 0))
  /\ phase' = IF ok THEN "installed" ELSE "waiting"
  /\ UNCHANGED <<toDelete, handlers, puts, fetchEvents, pendingRecords,
                 lastOk, answer, limits, hookVars, msgVars>>

\* mutant: the filter keeps the names it should drop
NamesToDeleteInverted(names) == {n \in names : StartsWithVersion(n)}

\* lines 41-43: the names the activate handler maps to caches.delete
NamesToDelete(names) == {n \in names : ~StartsWithVersion(n)}

\* lines 35-47: the activate handler lists the caches and issues a delete
\* for each name that does not start with CACHE_VERSION
ActivateBegin ==
  /\ phase \in {"installed", "waiting"}
  /\ phase' = "activating"
  /\ toDelete' = NamesToDelete(cacheNames)
  /\ UNCHANGED <<cacheNames, entries, handlers, puts, fetchEvents,
                 pendingRecords, lastOk, answer, limits, hookVars, msgVars>>

\* line 46: one caches.delete(name) settles
DeleteOld(n) ==
  /\ phase = "activating"
  /\ n \in toDelete
  /\ toDelete' = toDelete \ {n}
  /\ cacheNames' = cacheNames \ {n}
  /\ entries' = {e \in entries : e.cache # n}
  /\ UNCHANGED <<phase, handlers, puts, fetchEvents, pendingRecords,
                 lastOk, answer, limits, hookVars, msgVars>>

\* mutant: the claim does not wait for the deletions
DeletionsSettledAnyway(pending) == TRUE

\* lines 41-49: Promise.all(...).then: every caches.delete has settled
DeletionsSettled(pending) == pending = {}

\* lines 48-53: Promise.all has settled, clients.claim(), activation is done
ActivateEnd ==
  /\ phase = "activating"
  /\ DeletionsSettled(toDelete)
  /\ phase' = "activated"
  /\ UNCHANGED <<cacheNames, entries, toDelete, handlers, puts, fetchEvents,
                 pendingRecords, lastOk, answer, limits, hookVars, msgVars>>

FreeHandlers == {h \in 1..MaxHandlers : ~handlers[h].active}

\* mutant: cache-first goes to the network although the cache has the entry
CacheFirstHitNever(cached) == FALSE

\* line 105: if (cached) in cacheFirst
CacheFirstHit(cached) == cached # 0

\* lines 58-98, 101-111, 124-129, 150-171: a fetch event arrives; the
\* handler routes it, the strategy opens its cache (which creates it),
\* cacheFirst and staleWhileRevalidate look the request up, and the
\* strategy runs up to its await of fetch(request)
FetchEvent(req) ==
  /\ phase = "activated"
  /\ fetchEvents < limits.fetches
  /\ Route(req).strategy # "none" => FreeHandlers # {}
  /\ LET r == Route(req)
         key == req.path
         cached == Match(entries, r.cache, key)
         h == CHOOSE f \in FreeHandlers : \A g \in FreeHandlers : f <= g
         waiting == [active |-> TRUE, req |-> req, strategy |-> r.strategy,
                     cache |-> r.cache, answered |-> FALSE,
                     seen |-> LastOkFor(key)]
     IN /\ fetchEvents' = fetchEvents + 1
        /\ cacheNames' = IF r.strategy = "none" THEN cacheNames
                          ELSE cacheNames \cup {r.cache}
        /\ CASE r.strategy = "none" ->
                  /\ answer' = answer
                  /\ handlers' = handlers
             [] r.strategy = "cacheFirst" /\ CacheFirstHit(cached) ->
                  /\ answer' = Answer("cached", TRUE, cached, key)
                  /\ handlers' = handlers
             [] r.strategy = "staleWhileRevalidate" /\ cached # 0 ->
                  /\ answer' = Answer("cached", TRUE, cached, key)
                  /\ handlers' = [handlers EXCEPT ![h] =
                                    [waiting EXCEPT !.answered = TRUE]]
             [] OTHER ->
                  /\ answer' = answer
                  /\ handlers' = [handlers EXCEPT ![h] = waiting]
  /\ UNCHANGED <<phase, entries, toDelete, puts, pendingRecords, lastOk,
                 limits, hookVars, msgVars>>

\* mutant: the revalidation stores whatever response came back
StoresResponseAlways(res) == res.kind = "response"

\* lines 113, 131, 157: if (response.ok) before cache.put
StoresResponse(res) == res.kind = "response" /\ res.ok

\* lines 111-120, 129-146, 155-174 and 88-91: the fetch awaited by handler
\* h ends with res; the strategy issues cache.put without awaiting it when
\* the response is ok, and the event is answered unless it already was
NetResolves(h, res) ==
  /\ handlers[h].active
  /\ LET hd == handlers[h]
         key == hd.req.path
         cached == Match(entries, hd.cache, key)
         offline == MatchAnywhere(cacheNames, entries, OfflinePath)
     IN /\ handlers' = [handlers EXCEPT ![h] = IdleHandler]
        /\ puts' = IF StoresResponse(res)
                   THEN puts \cup {Put(hd.cache, key, res.body)}
                   ELSE puts
        /\ lastOk' = IF hd.strategy = "networkFirst" /\ StoresResponse(res)
                     THEN {e \in lastOk : e.key # key}
                            \cup {[key |-> key, body |-> res.body]}
                     ELSE lastOk
        /\ CASE hd.answered -> answer' = answer
             [] res.kind = "response" ->
                  answer' = Answer("network", res.ok, res.body, key)
             [] hd.strategy = "staleWhileRevalidate" ->
                  answer' = Answer("empty", FALSE, 0, key)
             [] hd.strategy = "cacheFirst" ->
                  answer' = Answer("reject", FALSE, 0, key)
             [] cached # 0 ->
                  answer' = Answer("cached", TRUE, cached, key)
             [] hd.strategy = "navigate" ->
                  IF offline = {}
                  THEN answer' = Answer("empty", FALSE, 0, key)
                  ELSE \E b \in offline :
                         answer' = Answer("cached", TRUE, b, OfflinePath)
             [] OTHER -> answer' = Answer("reject", FALSE, 0, key)
  /\ UNCHANGED <<phase, cacheNames, entries, toDelete, fetchEvents,
                 pendingRecords, limits, hookVars, msgVars>>

\* a cache.put issued by a strategy settles: the entry is written
PutSettles(p) ==
  /\ p \in puts
  /\ puts' = puts \ {p}
  /\ entries' = IF p.cache \in cacheNames
                THEN Written(entries, p.cache, p.key, p.body)
                ELSE entries
  /\ UNCHANGED <<phase, cacheNames, toDelete, handlers, fetchEvents,
                 pendingRecords, lastOk, answer, limits, hookVars, msgVars>>

\* the tags a background sync event can carry
SyncTags == {"sync-records", "sync-other"}

\* lines 268-284: what syncRecords leaves of the entry rec after its
\* POSTs ended with results (per record: "ok", "httpError" for a response
\* that is not ok, "throw"): a throw is caught and logged, the response is
\* not looked at, and cache.delete follows the loop
AfterSync(rec, results) == NoPending

\* lines 250-288: the sync handler; for 'sync-records' syncRecords opens
\* the dynamic cache, posts each record of its '/pending-records' entry to
\* /api/records and deletes the entry
SyncEvent(tag) ==
  /\ phase = "activated"
  /\ IF tag = "sync-records"
     THEN /\ cacheNames' = cacheNames \cup {DYNAMIC_CACHE}
          /\ \E results \in [1..Len(pendingRecords.list)
                               -> {"ok", "httpError", "throw"}] :
               pendingRecords' = AfterSync(pendingRecords, results)
     ELSE UNCHANGED <<cacheNames, pendingRecords>>
  /\ UNCHANGED <<phase, entries, toDelete, handlers, puts, fetchEvents,
                 lastOk, answer, limits, hookVars, msgVars>>

\* the worker's lifecycle
SWLife ==
  \/ \E ok \in BOOLEAN : Install(ok)
  \/ ActivateBegin
  \/ \E n \in AllNames : DeleteOld(n)
  \/ ActivateEnd

NextSW ==
  \/ SWLife
  \/ \E req \in Requests : FetchEvent(req)
  \/ \E h \in 1..MaxHandlers, res \in NetResults : NetResolves(h, res)
  \/ \E p \in AllPuts : PutSettles(p)
  \/ \E tag \in SyncTags : SyncEvent(tag)

InitSW ==
  /\ limits = [ids |-> SWIds, replays |-> SWReplays,
               fetches |-> MaxFetchEvents]
  /\ Start
  /\ isOnline
  /\ \E olds \in SUBSET OldNames : SWStart(olds)

SpecSW == InitSW /\ [][NextSW]_vars

\* the worker, installed with no older generation around, serving only the
\* requests of one strategy
InitOne ==
  /\ limits = [ids |-> SWIds, replays |-> SWReplays,
               fetches |-> MaxFetchEvents]
  /\ Start
  /\ isOnline
  /\ SWStart({})

NextCacheFirst ==
  \/ \E ok \in BOOLEAN : Install(ok)
  \/ ActivateBegin
  \/ ActivateEnd
  \/ \E req \in RoutedTo("cacheFirst") : FetchEvent(req)
  \/ \E h \in 1..MaxHandlers, res \in NetResults : NetResolves(h, res)
  \/ \E p \in AllPuts : PutSettles(p)

SpecCacheFirst == InitOne /\ [][NextCacheFirst]_vars

NextRevalidate ==
  \/ \E ok \in BOOLEAN : Install(ok)
  \/ ActivateBegin
  \/ ActivateEnd
  \/ \E req \in RoutedTo("staleWhileRevalidate") : FetchEvent(req)
  \/ \E h \in 1..MaxHandlers, res \in NetResults : NetResolves(h, res)
  \/ \E p \in AllPuts : PutSettles(p)

SpecRevalidate == InitOne /\ [][NextRevalidate]_vars

\* the worker's lifecycle among older generations, with the events that
\* create the api and dynamic generations
NextLife ==
  \/ SWLife
  \/ \E req \in RoutedTo("networkFirst") : FetchEvent(req)
  \/ \E h \in 1..MaxHandlers, res \in NetResults : NetResolves(h, res)
  \/ \E p \in AllPuts : PutSettles(p)
  \/ \E tag \in SyncTags : SyncEvent(tag)

SpecLife == InitSW /\ [][NextLife]_vars

\* the worker serving API reads among requests it is to leave alone
NextBypass ==
  \/ \E ok \in BOOLEAN : Install(ok)
  \/ ActivateBegin
  \/ ActivateEnd
  \/ \E req \in Bypassed \cup RoutedTo("networkFirst") : FetchEvent(req)
  \/ \E h \in 1..MaxHandlers, res \in NetResults : NetResolves(h, res)
  \/ \E p \in AllPuts : PutSettles(p)

SpecBypass == InitOne /\ [][NextBypass]_vars

\* a message posted to the worker: its type and, for CACHE_URLS, its urls
Msg(type, urls) == [type |-> type, urls |-> urls]

Messages == {Msg("SKIP_WAITING", {}), Msg("CACHE_URLS", {DataFeed.path}),
             Msg("CACHE_URLS", {FormPage.path, DataFeed.path}),
             Msg("CLEAR_CACHE", {}), Msg("PING", {})}

\* the pre-fetch message of two urls
PrefetchMessages == {Msg("CACHE_URLS", {FormPage.path, DataFeed.path})}

\* mutant: only the generations of other versions are deleted
ClearSnapshotOldOnly(names) == NamesToDelete(names)

\* lines 306-310: caches.keys() mapped to caches.delete, every name
ClearSnapshot(names) == names

\* lines 291-314: the message handler.  SKIP_WAITING calls skipWaiting;
\* CACHE_URLS opens the dynamic cache and addAll stores the urls, all or
\* none; CLEAR_CACHE lists the caches and issues a delete for each
Message(msg) ==
  /\ phase # "parsed"
  /\ CASE msg.type = "SKIP_WAITING" ->
            /\ phase' = IF phase = "waiting" THEN "installed" ELSE phase
            /\ UNCHANGED <<cacheNames, entries, clearing>>
       [] msg.type = "CACHE_URLS" ->
            /\ cacheNames' = cacheNames \cup {DYNAMIC_CACHE}
            /\ \E res \in NetResults :
                 entries' = AddAll(entries, DYNAMIC_CACHE, msg.urls, res)
            /\ UNCHANGED <<phase, clearing>>
       [] msg.type = "CLEAR_CACHE" ->
            /\ ~clearing.active
            /\ clearing' = [active |-> TRUE, left |-> ClearSnapshot(cacheNames)]
            /\ UNCHANGED <<phase, cacheNames, entries>>
       [] OTHER -> UNCHANGED <<phase, cacheNames, entries, clearing>>
  /\ UNCHANGED <<toDelete, handlers, puts, fetchEvents, pendingRecords,
                 lastOk, answer, notification, limits, hookVars, windows, clicked>>

\* line 309: one caches.delete(name) of a CLEAR_CACHE settles
ClearDelete(n) ==
  /\ clearing.active
  /\ n \in clearing.left
  /\ clearing' = [clearing EXCEPT !.left = @ \ {n}]
  /\ cacheNames' = cacheNames \ {n}
  /\ entries' = {e \in entries : e.cache # n}
  /\ UNCHANGED <<phase, toDelete, handlers, puts, fetchEvents,
                 pendingRecords, lastOk, answer, notification, limits,
                 hookVars, windows, clicked>>

\* lines 307-311: Promise.all of a CLEAR_CACHE has settled
ClearEnd ==
  /\ clearing.active
  /\ clearing.left = {}
  /\ clearing' = NoClear
  /\ UNCHANGED <<phase, cacheNames, entries, toDelete, handlers, puts,
                 fetchEvents, pendingRecords, lastOk, answer, notification,
                 limits, hookVars, windows, clicked>>

\* line 193: the defaults the push handler starts from
DefaultTitle == "AppFlow"
DefaultBody == "You have a new notification"

\* what a push event carries: no data, text that is not JSON, a JSON
\* object whose title and body are given or missing ("undefined"), or the
\* JSON value null
Payload(kind, title, body) == [kind |-> kind, title |-> title, body |-> body]
PushPayloads ==
  {Payload("none", "", ""), Payload("text", "", "plain words"),
   Payload("null", "", "")}
  \cup {Payload("json", t, b) : t \in {"Sale", "undefined"},
                                  b \in {"Ends today", "undefined"}}

\* lines 193-219: the title and body showNotification is called with.
\* data = event.data.json() replaces the defaults as a whole; the catch
\* keeps the default title and takes the text as body; with JSON null the
\* read of data.body throws and nothing is shown
NotificationFor(pl) ==
  CASE pl.kind = "none" -> Shown(DefaultTitle, DefaultBody)
    [] pl.kind = "text" -> Shown(DefaultTitle, pl.body)
    [] pl.kind = "json" -> Shown(pl.title, pl.body)
    [] OTHER -> NoNotification

\* lines 189-220: the push handler
Push(pl) ==
  /\ phase = "activated"
  /\ notification' = NotificationFor(pl)
  /\ UNCHANGED <<phase, cacheNames, entries, toDelete, handlers, puts,
                 fetchEvents, pendingRecords, lastOk, answer, clearing,
                 limits, hookVars, windows, clicked>>

\* the url of a window client is absolute; the url a notification carries
\* is what the push payload gave, usually a path
AppRoot == "https://app/"
AppRecords == "https://app/records"

\* data.url of the notification clicked: absent, a path, or an absolute url
NotificationUrls == {"", "/", "/records", AppRecords}

\* clients.openWindow(url) resolves url against the worker's location
Resolve(url) ==
  CASE url = "/" -> AppRoot
    [] url = "/records" -> AppRecords
    [] OTHER -> url

\* line 232: event.notification.data?.url || '/'
UrlToOpen(url) == IF url = "" THEN "/" ELSE url

\* mutant: the target is resolved before it is compared
SameUrlResolved(clientUrl, target) == clientUrl = Resolve(target)

\* line 239: client.url === urlToOpen ('focus' in client holds for every
\* window client)
SameUrl(clientUrl, target) == clientUrl = target

\* lines 223-247: the notificationclick handler for a click with the given
\* action on a notification whose data.url is url: the first window client
\* with the target's url is focused, else a window is opened
NotificationClick(action, url) ==
  /\ phase = "activated"
  /\ LET target == UrlToOpen(url)
         same == {i \in 1..Len(windows) : SameUrl(windows[i], target)}
     IN IF action = "close"
        THEN /\ clicked' = NoClick
             /\ windows' = windows
        ELSE IF same # {}
        THEN /\ clicked' = Clicked({CHOOSE i \in same : \A j \in same : i <= j},
                                   {})
             /\ windows' = windows
        ELSE /\ Len(windows) < MaxWindows
             /\ clicked' = Clicked({}, {target})
             /\ windows' = Append(windows, Resolve(target))
  /\ UNCHANGED <<phase, cacheNames, entries, toDelete, handlers, puts,
                 fetchEvents, pendingRecords, lastOk, answer, clearing,
                 notification, limits, hookVars>>

\* the user opens the application in a window, or closes a window
UserOpens(url) ==
  /\ Len(windows) < MaxWindows
  /\ windows' = Append(windows, url)
  /\ UNCHANGED <<phase, cacheNames, entries, toDelete, handlers, puts,
                 fetchEvents, pendingRecords, lastOk, answer, clearing,
                 notification, clicked, limits, hookVars>>

UserCloses(i) ==
  /\ i \in 1..Len(windows)
  /\ windows' = SubSeq(windows, 1, i - 1) \o SubSeq(windows, i + 1, Len(windows))
  /\ UNCHANGED <<phase, cacheNames, entries, toDelete, handlers, puts,
                 fetchEvents, pendingRecords, lastOk, answer, clearing,
                 notification, clicked, limits, hookVars>>

\* the actions a click can carry: the two of the push handler's defaults,
\* and none (a click on the notification's body)
ClickActions == {"open", "close", ""}

\* the activated worker with its windows and the clicks on notifications
NextClick ==
  \/ \E ok \in BOOLEAN : Install(ok)
  \/ ActivateBegin
  \/ ActivateEnd
  \/ \E action \in ClickActions, url \in NotificationUrls :
       NotificationClick(action, url)
  \/ \E url \in {AppRoot, AppRecords} : UserOpens(url)
  \/ \E i \in 1..MaxWindows : UserCloses(i)

SpecClick == InitOne /\ [][NextClick]_vars

\* the worker's lifecycle among older generations, and its message and
\* push handlers
NextMessages ==
  \/ SWLife
  \/ \E msg \in Messages : Message(msg)
  \/ \E n \in AllNames : ClearDelete(n)
  \/ ClearEnd
  \/ \E pl \in PushPayloads : Push(pl)

SpecMessages == InitSW /\ [][NextMessages]_vars

\* everything of the worker that stores responses: install, the
\* strategies and the message handler
NextStore ==
  \/ \E ok \in BOOLEAN : Install(ok)
  \/ ActivateBegin
  \/ ActivateEnd
  \/ \E req \in Requests : FetchEvent(req)
  \/ \E h \in 1..MaxHandlers, res \in NetResults : NetResolves(h, res)
  \/ \E p \in AllPuts : PutSettles(p)
  \/ \E msg \in PrefetchMessages : Message(msg)

InitStore ==
  /\ limits = [ids |-> SWIds, replays |-> SWReplays,
               fetches |-> StoreFetchEvents]
  /\ Start
  /\ isOnline
  /\ SWStart({})

SpecStore == InitStore /\ [][NextStore]_vars

\* one request for each branch of the fetch handler, the overlapping ones
\* for the API and the static branch
RouteRequests == Overlapping \cup {FormPage, DataFeed}

NextRoute ==
  \/ \E ok \in BOOLEAN : Install(ok)
  \/ ActivateBegin
  \/ ActivateEnd
  \/ \E req \in RouteRequests : FetchEvent(req)
  \/ \E h \in 1..MaxHandlers, res \in NetResults : NetResolves(h, res)
  \/ \E p \in AllPuts : PutSettles(p)

SpecRoute == InitStore /\ [][NextRoute]_vars

\* lines 265-266: something has stored a list of records under
\* '/pending-records' in the dynamic cache (nothing in the repository does)
StorePending(list) ==
  /\ cacheNames' = cacheNames \cup {DYNAMIC_CACHE}
  /\ pendingRecords' = [present |-> TRUE, list |-> list]
  /\ UNCHANGED <<phase, entries, toDelete, handlers, puts, fetchEvents,
                 lastOk, answer, limits, hookVars, msgVars>>

\* the worker's lifecycle, its sync handler and the pending records
NextRecords ==
  \/ SWLife
  \/ \E tag \in SyncTags : SyncEvent(tag)
  \/ \E n \in 1..MaxRecords : StorePending([i \in 1..n |-> i])

SpecRecords == InitSW /\ [][NextRecords]_vars

\* the page with its queue and the worker with its sync handler
NextSync ==
  \/ Next
  \/ SWLife
  \/ \E tag \in SyncTags : SyncEvent(tag)

InitSync ==
  /\ limits = [ids |-> SyncIds, replays |-> SyncReplays]
  /\ Start
  /\ \E olds \in SUBSET OldNames : SWStart(olds)

SpecSync == InitSync /\ [][NextSync]_vars

TypeOK ==
  /\ isSyncing \in BOOLEAN /\ isOnline \in BOOLEAN /\ queueDirty \in BOOLEAN
  /\ nextId \in 1..(limits.ids + 1)
  /\ replays \in 0..limits.replays
  /\ confirmed \subseteq Ids

\* ------------------------------------------------------------- claims
Active == {p \in 1..MaxPasses : passes[p].active}

\* pass p starts in this step / ends in this step
Starts(p) == ~passes[p].active /\ passes'[p].active
Ends(p) == \E ok \in BOOLEAN : FetchResolves(p, ok) /\ ~passes'[p].active

Retried(a) == [a EXCEPT !.retries = a.retries + 1]

\* C1: a second call of replay while a pass is awaiting a write is a no-op:
\* at most one pass is active, and no mutation has its write awaited by two
\* passes at once.
C1_SingleReplayPass ==
  /\ Cardinality(Active) <= 1
  /\ \A p, q \in Active :
       p # q => ActionAt(passes[p].snap, passes[p].idx).id
                  # ActionAt(passes[q].snap, passes[q].idx).id

\* C2: a mutation enqueued while a pass is in progress (its id was handed
\* out after the pass started) and in the queue when the pass finishes is
\* still in the queue after the end-of-pass queue update.
C2_EnqueuedDuringReplayKept ==
  [][\A p \in 1..MaxPasses :
       Ends(p) =>
         \A i \in 1..Len(queue) :
           queue[i].id >= passes[p].since
             => queue[i].id \in IdsOf(queue')]_vars

\* C3: in every pass the writes are issued in enqueue order (ids are handed
\* out in enqueue order), following the queue the pass iterates, and at
\* most one write of the pass is unresolved at any time.
C3_WritesInOrderOneAtATime ==
  \A p \in Active :
    LET ps == passes[p] IN
      /\ ps.pending <= 1
      /\ Len(ps.log) <= Len(ps.snap)
      /\ \A i \in 1..Len(ps.log) : ps.log[i] = ps.snap[i].id
      /\ \A i, j \in 1..Len(ps.log) : i < j => ps.log[i] < ps.log[j]

C3_Witness ==
  \E p, q \in Active :
    p # q /\ Len(passes[p].log) = 2 /\ passes[p].snap = passes[q].snap

\* C4: a pass over [A, B, C] in which only B's write fails ends with the
\* queue holding exactly B with its retry count one higher, A and C
\* confirmed; and a failed write that is not the last of its pass is
\* followed by the write of the next mutation.
C4_OnlyFailedOneStays ==
  [][\A p \in 1..MaxPasses :
       LET ps == passes[p] IN
         /\ ( /\ ps.active
              /\ Len(ps.snap) = 3
              /\ ps.idx = 3
              /\ ps.snap[2].retries < MAX_RETRIES
              /\ Len(ps.failed) = 1
              /\ ps.failed[1].id = ps.snap[2].id
              /\ ps.snap[1].id \in confirmed
              /\ FetchResolves(p, TRUE) )
            => /\ queue' = <<Retried(ps.snap[2])>>
               /\ ps.snap[3].id \in confirmed'
         /\ ( /\ ps.active
              /\ ps.idx < Len(ps.snap)
              /\ FetchResolves(p, FALSE) )
            => /\ passes'[p].active
               /\ passes'[p].log = Append(ps.log, ps.snap[ps.idx + 1].id)]_vars

C4_Witness ==
  /\ Active = {}
  /\ replays = 1
  /\ confirmed = {1, 3}
  /\ fails = [i \in Ids |-> IF i = 2 THEN 1 ELSE 0]
  /\ queue = <<[id |-> 2, retries |-> 1]>>

C6_AbandonedExactlyOnce ==
  \A id \in Ids :
    /\ Len(events[id]) <= 1
    /\ Len(events[id]) >= 1 => fails[id] >= MAX_RETRIES + 1
    /\ (fails[id] >= MAX_RETRIES + 1 /\ Active = {})
         => /\ Len(events[id]) = 1
            /\ events[id][1].id = id
            /\ id \notin IdsOf(queue)

\* C7: retry counts stay within 0..MAX_RETRIES in the queue and in the
\* persisted list, and no pass that starts after a mutation was abandoned
\* attempts that mutation.
RetriesBounded(s) == \A i \in 1..Len(s) : s[i].retries \in 0..MAX_RETRIES

C7_BoundedAndNeverRetriedOnceAbandoned ==
  [][/\ RetriesBounded(queue')
     /\ RetriesBounded(storage'.list)
     /\ \A p \in 1..MaxPasses :
          Starts(p) => \A i \in 1..Len(passes'[p].snap) :
                         events[passes'[p].snap[i].id] = <<>>]_vars

\* C8: a mutation leaves the queue only when its write was confirmed, when
\* it was abandoned with an event, or by clear() (a restart of the page is
\* outside the claim).
C8_LeavesOnlyByThreeCauses ==
  [][\A id \in IdsOf(queue) \ IdsOf(queue') :
       \/ id \in confirmed'
       \/ events'[id] # <<>>
       \/ ClearQueue
       \/ \E online \in BOOLEAN : Restart(online)]_vars

\* C9: no pass that starts after a mutation's write was confirmed sends that
\* mutation's write (the write a starting pass issues is the first of its
\* log).
C9_ConfirmedNeverSentAgain ==
  [][\A p \in 1..MaxPasses :
       Starts(p) => passes'[p].log[1] \notin confirmed]_vars

\* C10: every mutation enqueue has returned an id for, and that is in the
\* queue, is in the queue that a restart builds from the durable store.
C10_EnqueuedSurvivesRestart ==
  [][(\E online \in BOOLEAN : Restart(online))
       => IdsOf(queue) \subseteq IdsOf(queue')]_vars

\* C11: once clear() and the effects it triggers have run (the record is
\* gone, the queue is empty and the commit that follows runs the persist
\* effect), the queue is empty and the durable record still does not exist.
C11_ClearRemovesRecord ==
  [][(Render /\ ~storage.present /\ queue = <<>>)
       => (queue' = <<>> /\ ~storage'.present)]_vars

\* C13: an online event that arrives while offline, with a mutation queued
\* and no replay running, starts a replay pass over the queue.
C13_OnlineStartsReplay ==
  [][( /\ HandleOnline
       /\ ~isOnline
       /\ queue # <<>>
       /\ ~isSyncing
       /\ Active = {}
       /\ replays < limits.replays )
     => \E p \in 1..MaxPasses : Starts(p) /\ passes'[p].snap = queue]_vars

\* C12: a call of executeWithFallback with fallback data that finds the
\* monitor offline, or whose direct write fails (a response that is not ok,
\* or a network error), enqueues exactly one mutation and returns a queued
\* success.
QueuedOne ==
  /\ outcome'.kind = "queued"
  /\ Len(queue') = Len(queue) + 1
  /\ queue'[Len(queue')].id = outcome'.id

C12_FailedWriteIsQueued ==
  [][/\ (ExecuteWithFallback(TRUE, "POST") /\ ~closure.isOnline) => QueuedOne
     /\ \A e \in 1..MaxExecs :
          ( /\ exec[e].active
            /\ exec[e].fallback
            /\ \E res \in {"httpError", "networkError"} : DirectResolves(e, res) )
          => QueuedOne]_vars

\* the handlers that run strategy st
Running(st) == {h \in 1..MaxHandlers : handlers[h].active /\ handlers[h].strategy = st}

\* the entry the cache of handler h holds for its request, 0 for none
StoredFor(h) == Match(entries, handlers[h].cache, handlers[h].req.path)

\* C14: a sync event tagged 'sync-records' starts a replay pass of the
\* offline mutation queue over the queue that queueAction writes to, and
\* the worker keeps no record list of its own; a sync event with another
\* tag changes nothing.
C14_SyncDelegatesToReplay ==
  [][/\ ( /\ SyncEvent("sync-records")
          /\ queue # <<>> /\ ~isSyncing /\ Active = {}
          /\ replays < limits.replays )
        => \E p \in 1..MaxPasses : Starts(p) /\ passes'[p].snap = queue
     /\ SyncEvent("sync-other") => UNCHANGED vars]_vars

\* C15: a request under the API prefix that arrives after an ok network
\* response for the same key was given as the answer, and whose own fetch
\* throws, is answered with the stored response, the same body as the last
\* ok network response answered for the key.
C15_ApiFallsBackToLastOk ==
  [][\A h \in 1..MaxHandlers :
       ( /\ h \in Running("networkFirst")
         /\ handlers[h].seen # 0
         /\ NetResolves(h, NetThrows) )
       => answer' = Answer("cached", TRUE, LastOkFor(handlers[h].req.path),
                           handlers[h].req.path)]_vars

\* C16: network-first, when the fetch throws or returns a response that is
\* not ok and the cache holds a response for the key, answers with the
\* held response; the failure is passed on only when nothing is held.
C16_FailureServesStored ==
  [][\A h \in Running("networkFirst") \cup Running("navigate") :
       \A res \in {NetThrows, NetResponse(FALSE, 0)} :
         NetResolves(h, res) =>
           IF StoredFor(h) # 0
           THEN answer' = Answer("cached", TRUE, StoredFor(h),
                                 handlers[h].req.path)
           ELSE answer'.kind # "cached" \/ answer'.key # handlers[h].req.path]_vars

\* C19: a navigation whose fetch throws while nothing is stored for the
\* request is answered with the stored offline page, whatever the caches
\* hold, also after an install that stored nothing.
C19_NavigationGetsOfflinePage ==
  [][\A h \in Running("navigate") :
       (NetResolves(h, NetThrows) /\ StoredFor(h) = 0)
       => (answer'.kind = "cached" /\ answer'.key = OfflinePath)]_vars

\* the fetch event for r is answered from the cache and no fetch is issued
AnsweredFromCache(r, cache) ==
  /\ answer' = Answer("cached", TRUE, Match(entries, cache, r.path), r.path)
  /\ handlers' = handlers

\* the fetch event for r is left unanswered, awaiting a fetch of r
AwaitsNetwork(r) ==
  /\ answer' = answer
  /\ \E h \in 1..MaxHandlers :
       /\ ~handlers[h].active
       /\ handlers'[h].active /\ handlers'[h].req = r
       /\ ~handlers'[h].answered

\* C17: a static-asset request whose entry is stored is answered with the
\* entry and no fetch is issued; on a miss the fetch is issued, and when it
\* returns an ok response a put of that response into the static cache is
\* issued, which writes the entry when it settles.
C17_CacheFirstPrefersStored ==
  [][/\ \A r \in RoutedTo("cacheFirst") :
          FetchEvent(r) =>
            IF Match(entries, STATIC_CACHE, r.path) # 0
            THEN AnsweredFromCache(r, STATIC_CACHE)
            ELSE AwaitsNetwork(r)
     /\ \A h \in Running("cacheFirst") : \A b \in 1..MaxBody :
          NetResolves(h, NetResponse(TRUE, b)) =>
            Put(STATIC_CACHE, handlers[h].req.path, b) \in puts'
     /\ \A p \in AllPuts :
          (PutSettles(p) /\ p.cache = STATIC_CACHE) =>
            Match(entries', STATIC_CACHE, p.key) = p.body]_vars

\* a miss was fetched and stored, and a later request for the asset was
\* answered with the stored entry
C17_Witness ==
  /\ Match(entries, STATIC_CACHE, AppJs.path) # 0
  /\ answer = Answer("cached", TRUE, Match(entries, STATIC_CACHE, AppJs.path),
                     AppJs.path)
  /\ Running("cacheFirst") = {}

\* the fetch event for r is answered with the stored entry while the fetch
\* issued for r goes on
AnsweredWhileRevalidating(r, cache) ==
  /\ answer' = Answer("cached", TRUE, Match(entries, cache, r.path), r.path)
  /\ \E h \in 1..MaxHandlers :
       /\ ~handlers[h].active
       /\ handlers'[h].active /\ handlers'[h].req = r
       /\ handlers'[h].answered

\* C18 as stated: stale-while-revalidate answers with the stored entry
\* without waiting, and every background fetch that ends, with an ok
\* response or not, is followed by an update of the store.
C18_RevalidationAlwaysUpdates ==
  [][/\ \A r \in RoutedTo("staleWhileRevalidate") :
          (FetchEvent(r) /\ Match(entries, DYNAMIC_CACHE, r.path) # 0)
          => AnsweredWhileRevalidating(r, DYNAMIC_CACHE)
     /\ \A h \in Running("staleWhileRevalidate") : \A res \in NetResults :
          (handlers[h].answered /\ NetResolves(h, res))
          => \E b \in 0..MaxBody :
               Put(DYNAMIC_CACHE, handlers[h].req.path, b) \in puts']_vars

\* C18 amended: stale-while-revalidate answers with the stored entry
\* without waiting, whatever the background fetch does later; when the
\* background fetch ends the answer given stays, a put of the response is
\* issued if and only if the response is ok, and nothing is written when
\* the fetch throws or the response is not ok.
C18_RevalidationUpdatesOnOk ==
  [][/\ \A r \in RoutedTo("staleWhileRevalidate") :
          (FetchEvent(r) /\ Match(entries, DYNAMIC_CACHE, r.path) # 0)
          => AnsweredWhileRevalidating(r, DYNAMIC_CACHE)
     /\ \A h \in Running("staleWhileRevalidate") : \A res \in NetResults :
          (handlers[h].answered /\ NetResolves(h, res))
          => /\ answer' = answer
             /\ entries' = entries
             /\ puts' = IF res.kind = "response" /\ res.ok
                        THEN puts \cup {Put(DYNAMIC_CACHE,
                                            handlers[h].req.path, res.body)}
                        ELSE puts]_vars

\* a request was answered with the stored entry, a revalidation has since
\* replaced the entry by another version, and another background fetch for
\* the key is still going on
C18_Witness ==
  /\ answer.kind = "cached" /\ answer.key = DataFeed.path
  /\ Match(entries, DYNAMIC_CACHE, DataFeed.path) \notin {0, answer.body}
  /\ \E h \in Running("staleWhileRevalidate") :
       handlers[h].answered /\ handlers[h].req = DataFeed

\* the generations of role that carry exactly the active version
CurrentOf(role) ==
  {n \in cacheNames : n.ver = CACHE_VERSION /\ n.role = role}

Roles == {"static", "dynamic", "api"}

Superseded == NamesToDelete(cacheNames)

C23_OtherRequestsNotIntercepted ==
  [][\A req \in Bypassed :
       FetchEvent(req) =>
         UNCHANGED <<answer, handlers, cacheNames, entries, puts>>]_vars

\* fetch events have been handled, none was answered, no strategy is
\* running and no cache but the installed one exists: the events were for
\* requests left alone
C23_Witness ==
  /\ fetchEvents >= 2
  /\ answer = NoAnswer
  /\ \A h \in 1..MaxHandlers : ~handlers[h].active
  /\ cacheNames = {STATIC_CACHE}
  /\ puts = {}

\* C24: an install whose pre-population fails still ends with the install
\* done and skipWaiting called, as an install that stored everything does;
\* after an install that stored everything the static cache holds every
\* entry of STATIC_ASSETS.
C24_InstallFailureStillTakesOver ==
  [][\A ok \in BOOLEAN :
       Install(ok) =>
         /\ phase' = "installed"
         /\ ok => \A k \in STATIC_ASSETS :
                    Match(entries', STATIC_CACHE, k) # 0]_vars

\* the generations whose entries differ between this state and the next
Touched == {n \in AllNames : {e \in entries : e.cache = n}
                               # {e \in entries' : e.cache = n}}

C25_PushHasTitleAndBody ==
  [][\A pl \in PushPayloads :
       Push(pl) =>
         /\ notification'.shown
         /\ notification'.title =
              IF pl.kind = "json" /\ pl.title # "undefined" THEN pl.title
              ELSE DefaultTitle
         /\ notification'.body =
              IF pl.kind \in {"json", "text"} /\ pl.body # "undefined"
              THEN pl.body ELSE DefaultBody]_vars

\* C22: every response a cache holds, and every response a put is pending
\* for, came from the network with a success status (body 0 is the body
\* of a response that is not ok).
C22_OnlyOkResponsesStored ==
  \A e \in entries \cup puts : e.body \in 1..MaxBody

\* install, network-first, cache-first and the pre-fetch message have
\* each stored a response
C22_Witness ==
  /\ Match(entries, STATIC_CACHE, OfflinePath) # 0
  /\ Match(entries, API_CACHE, ApiRecords.path) # 0
  /\ Match(entries, STATIC_CACHE, AppJs.path) # 0
  /\ Match(entries, DYNAMIC_CACHE, DataFeed.path) # 0
  /\ puts = {}

\* C27: when the page is opened and the record under the key cannot be
\* parsed, the record is left as it is and the hook does not show the state
\* it shows for an empty store (an empty queue and nothing else).
C27_UnreadableStoreSurfaced ==
  [][\A online \in BOOLEAN :
       (Restart(online) /\ storage.present /\ ~storage.valid)
       => /\ storage' = storage
          /\ <<queue', queueDirty', isSyncing'>> # <<<<>>, FALSE, FALSE>>]_vars

\* C28: a call of the replay function while the queue is empty starts no
\* pass (no write is issued), leaves isSyncing false and leaves the queue
\* and the durable store as they are.
C28_ReplayOnEmptyQueueIsNoOp ==
  [][(Replay /\ queue = <<>>)
       => (UNCHANGED <<passes, isSyncing, queue, storage>>)]_vars

\* C29: a stale-while-revalidate or network-first invocation whose event is
\* not answered yet, with nothing stored for its request and a fetch that
\* throws, ends in a rejection.
C29_FailurePropagates ==
  [][\A h \in Running("staleWhileRevalidate") \cup Running("networkFirst") :
       ( /\ ~handlers[h].answered
         /\ StoredFor(h) = 0
         /\ NetResolves(h, NetThrows) )
       => answer' = Answer("reject", FALSE, 0, handlers[h].req.path)]_vars

\* the strategy and the generation the chain of C30 names for each request
\* of the model
Chosen(req) ==
  CASE req \in {ApiRecords, ApiScript} -> Routed("networkFirst", API_CACHE)
    [] req \in {AppJs, ImageNav} -> Routed("cacheFirst", STATIC_CACHE)
    [] req = FormPage -> Routed("navigate", DYNAMIC_CACHE)
    [] req = DataFeed -> Routed("staleWhileRevalidate", DYNAMIC_CACHE)

\* the fetch event for req is taken by one invocation of the strategy of
\* Chosen(req) on its generation: only that generation is opened, and either
\* the event is answered at once from it or one handler starts waiting
HandledByChosen(req) ==
  LET c == Chosen(req)
  IN /\ cacheNames' = cacheNames \cup {c.cache}
     /\ entries' = entries /\ puts' = puts
     /\ \/ /\ handlers' = handlers
           /\ c.strategy = "cacheFirst"
           /\ answer' = Answer("cached", TRUE,
                               Match(entries, c.cache, req.path), req.path)
        \/ \E h \in 1..MaxHandlers :
             /\ ~handlers[h].active /\ handlers'[h].active
             /\ handlers'[h].req = req
             /\ handlers'[h].strategy = c.strategy
             /\ handlers'[h].cache = c.cache
             /\ \A g \in 1..MaxHandlers \ {h} : handlers'[g] = handlers[g]
             /\ \/ answer' = answer
                \/ answer' = Answer("cached", TRUE,
                                    Match(entries, c.cache, req.path), req.path)

\* the stored response handler h answers its event with, when the event is
\* not answered yet, is held by its own generation
FromOwnGeneration(h) ==
  (~handlers[h].answered /\ answer'.kind = "cached")
  => Put(handlers[h].cache, answer'.key, answer'.body) \in entries

\* the stored response is the offline page, given to a navigation whose
\* fetch threw, out of whichever generation holds it
OfflineFallback(h, res) ==
  /\ ~handlers[h].answered
  /\ handlers[h].strategy = "navigate" /\ res = NetThrows
  /\ answer'.key = OfflinePath
  /\ \E n \in cacheNames : Put(n, OfflinePath, answer'.body) \in entries

\* what the end of the fetch of handler h writes goes to its generation
WritesOwnGeneration(h) ==
  /\ cacheNames' = cacheNames /\ entries' = entries
  /\ \A p \in puts' \ puts :
       p.cache = handlers[h].cache /\ p.key = handlers[h].req.path

\* C30 as stated: every intercepted request goes to the strategy and
\* generation that the ordered chain names, and every strategy, the
\* navigation one with its fallback included, reads and writes only the
\* generation it was given.
C30_OnlyTheGivenGeneration ==
  [][/\ \A req \in RouteRequests : FetchEvent(req) => HandledByChosen(req)
     /\ \A h \in 1..MaxHandlers, res \in NetResults :
          NetResolves(h, res) => (WritesOwnGeneration(h) /\ FromOwnGeneration(h))]_vars

\* C30: every intercepted request goes to the strategy and generation that
\* the ordered chain names (API prefix, then static extension, then
\* navigation, then the rest), and a strategy reads and writes only the
\* generation it was given, except that the offline fallback of a
\* navigation looks the offline page up in every generation.
C30_ChainAndGeneration ==
  [][/\ \A req \in RouteRequests : FetchEvent(req) => HandledByChosen(req)
     /\ \A h \in 1..MaxHandlers, res \in NetResults :
          NetResolves(h, res)
          => /\ WritesOwnGeneration(h)
             /\ FromOwnGeneration(h) \/ OfflineFallback(h, res)
     /\ \A p \in AllPuts :
          PutSettles(p) => (entries' \ entries \subseteq {p}
                            /\ cacheNames' = cacheNames)]_vars

\* both overlapping requests were routed: the API script waits in
\* network-first on the api generation while the static generation holds
\* the image that cache-first stored
C30_Witness ==
  /\ \E h \in Running("networkFirst") :
       handlers[h].req = ApiScript /\ handlers[h].cache = API_CACHE
  /\ \E e \in entries : e.cache = STATIC_CACHE /\ e.key = ImageNav.path

\* C31: queueAction appends one mutation with retries 0 at the tail of the
\* queue, under the id it returns (the next one in creation order); the
\* mutations already queued stay as they are and in their order, and no
\* write is issued: no pass and no direct call starts or moves.
C31_EnqueueAppendsOne ==
  [][QueueAction
       => /\ Len(queue') = Len(queue) + 1
          /\ queue'[Len(queue')] = [id |-> nextId, retries |-> 0]
          /\ SubSeq(queue', 1, Len(queue)) = queue
          /\ nextId \notin IdsOf(queue)
          /\ UNCHANGED <<passes, exec, replays, isSyncing>>]_vars

\* a mutation was enqueued behind one that a pass had kept with one retry
C31_Witness ==
  /\ Len(queue) = 2
  /\ queue[1] = [id |-> 1, retries |-> 1]
  /\ queue[2] = [id |-> 2, retries |-> 0]

\* nothing is pending: every state update is committed, and no pass and no
\* direct call awaits a fetch
Quiescent ==
  /\ ~queueDirty /\ closure = Rendered
  /\ \A p \in 1..MaxPasses : ~passes[p].active
  /\ \A e \in 1..MaxExecs : ~exec[e].active

\* C32: in every quiescent state the list in the durable store is the
\* queue; and the queue a finished pass leaves holds only mutations of the
\* pass that can still retry, each with its retry count one higher, so that
\* this is what the store holds once the pass's updates are committed.
C32_StoreEqualsQueueWhenQuiescent ==
  /\ [](Quiescent => storage = Stored(queue))
  /\ [][\A p \in 1..MaxPasses, ok \in BOOLEAN :
          (FetchResolves(p, ok) /\ passes[p].idx >= Len(passes[p].snap))
          => \A i \in 1..Len(queue') :
               \E j \in 1..Len(passes[p].snap) :
                 /\ passes[p].snap[j].id = queue'[i].id
                 /\ passes[p].snap[j].retries < MAX_RETRIES
                 /\ queue'[i].retries = passes[p].snap[j].retries + 1]_vars

\* a pass has ended with a failed write, everything is committed, and the
\* store holds the mutation with its retry counted
C32_Witness ==
  /\ Quiescent
  /\ replays >= 1
  /\ queue = <<[id |-> 1, retries |-> 1]>>
  /\ storage = Stored(queue)

\* C33: a click with an action other than 'close' focuses exactly one open
\* window whose url equals the notification's target url character for
\* character when there is one, and opens nothing then; when there is none
\* it focuses nothing and opens one window for the target.  A click with
\* action 'close' focuses and opens nothing.
C33_FocusOrOpen ==
  [][\A action \in ClickActions, url \in NotificationUrls :
       NotificationClick(action, url)
       => LET target == IF url = "" THEN "/" ELSE url
              equal == {i \in 1..Len(windows) : windows[i] = target}
          IN IF action = "close"
             THEN clicked' = NoClick /\ windows' = windows
             ELSE IF equal # {}
             THEN /\ Cardinality(clicked'.focused) = 1
                  /\ clicked'.focused \subseteq equal
                  /\ clicked'.opened = {} /\ windows' = windows
             ELSE /\ clicked'.focused = {}
                  /\ clicked'.opened = {target}
                  /\ Len(windows') = Len(windows) + 1]_vars

\* a click has focused one of two windows that show the target's url
C33_Witness ==
  /\ windows = <<AppRecords, AppRecords>>
  /\ clicked = Clicked({1}, {})

C35_MethodRoundTrip ==
  \A p \in 1..MaxPasses :
    \A i \in 1..Len(passes[p].log) :
      LET m == made[passes[p].log[i]]
      IN m.by = "fallback" => ReplayMethod(m.type) = RequestMethod(m.method)

\* C36: a call of executeWithFallback changes the queue only by appending
\* the one mutation whose id its queued outcome carries; a direct write
\* that got a success status gives a success outcome that is not queued and
\* leaves the queue as it is; a call without fallback data whose write
\* fails or cannot be tried gives an error outcome and leaves the queue as
\* it is; and no direct write is tried by a call that reads isOnline as
\* false.
C36_FallbackFrame ==
  [][/\ \A fallback \in BOOLEAN :
          ExecuteWithFallback(fallback, "POST")
          => /\ queue' # queue => QueuedOne
             /\ ~closure.isOnline => exec' = exec
             /\ (~fallback /\ exec' = exec)
                  => (outcome'.kind = "error" /\ queue' = queue)
     /\ \A e \in 1..MaxExecs, res \in DirectResults :
          DirectResolves(e, res)
          => /\ queue' # queue => QueuedOne
             /\ res \in {"ok", "okNoJson"}
                  => (outcome'.kind = "success" /\ queue' = queue)
             /\ (res \in {"httpError", "networkError"} /\ ~exec[e].fallback)
                  => (outcome'.kind = "error" /\ queue' = queue)]_vars

\* C37: the queue always lists its mutations in the order of their
\* creation; and over any step of an enqueue, a replay or a clear, a
\* mutation that stays in the queue keeps its retry count, or has it
\* raised by one at the end of a pass that had the mutation in its list.
C37_OrderKeptRetriesOnlyGrow ==
  /\ [](\A i, j \in 1..Len(queue) : i < j => queue[i].id < queue[j].id)
  /\ [][(~ \E online \in BOOLEAN : Restart(online))
        => \A i \in 1..Len(queue), j \in 1..Len(queue') :
             queue[i].id = queue'[j].id
             => \/ queue'[j].retries = queue[i].retries
                \/ /\ queue'[j].retries = queue[i].retries + 1
                   /\ \E p \in 1..MaxPasses :
                        Ends(p) /\ queue[i].id \in IdsOf(passes[p].snap)]_vars

\* C38: whatever the results of the POSTs of
\* syncRecords, a record whose POST did not succeed is still in the
\* '/pending-records' entry after the sync.
C38_FailedRecordsKept ==
  [][(SyncEvent("sync-records") /\ pendingRecords.present)
     => \A results \in [1..Len(pendingRecords.list)
                          -> {"ok", "httpError", "throw"}] :
          pendingRecords' = AfterSync(pendingRecords, results)
          => \A i \in 1..Len(pendingRecords.list) :
               results[i] # "ok"
               => /\ pendingRecords'.present
                  /\ \E j \in 1..Len(pendingRecords'.list) :
                       pendingRecords'.list[j] = pendingRecords.list[i]]_vars

====
